---- MODULE Spec2Model ----
(***************************************************************************)
(* Model of the multi-source collection coordinator of GutachtenAssist:   *)
(* SocialMediaCollector (src/src/core/social_media_collector.py), its     *)
(* SQLite posts table, the continuous scheduler loop and the per-source   *)
(* collect_posts functions of the four Source Collector variants.         *)
(***************************************************************************)
EXTENDS Integers, Sequences, FiniteSets, TLC

\* ------------------------------------------------------------------ bounds
MaxBatch == 2       \* a collector returns at most this many records per call
MaxPlatforms == 2   \* length of the requested platforms list
MaxPosts == 2       \* max_posts handed to collect_posts is 1..MaxPosts
MaxUrls == 2        \* number of forum URLs configured
MaxKeywords == 2    \* number of keywords handed to collect_posts
MaxOffer == 2       \* number of items a source listing offers
MaxRows == 2        \* number of records written before the store is queried

\* --------------------------------------------------------- data model
\* The platform names the coordinator knows (keys of self.collectors).
Names == {"reddit", "twitter", "facebook", "forums"}

\* Order in which _init_collectors inserts the keys into self.collectors.
InitOrder == <<"reddit", "twitter", "facebook", "forums">>

\* The platform tag each collector writes into the records it constructs.
\* ForumCollector tags by scraper (the default configuration lists a
\* reddit.com URL and a news.ycombinator.com URL), never by its own name.
Tags(name) ==
  CASE name = "reddit" -> {"reddit"}
    [] name = "twitter" -> {"twitter"}
    [] name = "facebook" -> {"facebook"}
    [] name = "forums" -> {"reddit", "hackernews"}

\* SocialMediaPost, reduced to its dedup key and three payload fields.  The
\* content is a sequence of characters, timestamp 0 stands for None, tags is
\* an Optional[List[str]].
SocialMediaPost(tag, id, c, ts, tg) ==
  [platform |-> tag, post_id |-> id, content |-> c, timestamp |-> ts, tags |-> tg]

\* The items the sources offer.  The Hacker News story "h1" is seen with two
\* different sets of field values: its record gets timestamp=utcnow() at
\* every scrape (forum_collector.py line 223) and its score moves.  Reddit
\* records carry tags=[subreddit], Hacker News records tags=['hackernews'],
\* tweets their hashtags, Facebook records tags=[].
SourceItems ==
  {SocialMediaPost("reddit", "r1", <<"a">>, 1, <<<<"all">>>>),
   SocialMediaPost("hackernews", "h1", <<"a">>, 1, <<<<"hackernews">>>>),
   SocialMediaPost("hackernews", "h1", <<"b">>, 2, <<<<"hackernews">>>>),
   SocialMediaPost("twitter", "t1", <<"a">>, 1, <<<<"#a">>>>),
   SocialMediaPost("facebook", "f1", <<"a">>, 1, <<<<>>>>)}

\* What collector `name` can construct from them.
Items(name) == {p \in SourceItems : p.platform \in Tags(name)}

SeqsUpTo(S, n) == UNION {[1..k -> S] : k \in 0..n}

\* What one collect_posts call of collector `name` may return.
Batches(name) == SeqsUpTo(Items(name), MaxBatch)

\* Optional[List[str]]: None is <<>>, a given list l is <<l>>.
None == <<>>
PlatformArgs == {None} \cup {<<l>> : l \in SeqsUpTo(Names, MaxPlatforms)}

\* ------------------------------------------------------------- the Store
SameKey(r, p) == r.platform = p.platform /\ r.post_id = p.post_id

Key(r) == <<r.platform, r.post_id>>

Keys(table) == {Key(table[i]) : i \in 1..Len(table)}

\* json.dumps of a list of strings, as a sequence of tokens.
JsonDumps(l) == <<"[">> \o l \o <<"]">>

\* json.loads of such a text.
JsonLoads(text) == SubSeq(text, 2, Len(text) - 1)

\* The parameter tuple of the INSERT (lines 186-198): tags goes in as
\* `json.dumps(post.tags) if post.tags else None`, so None and the empty
\* list both become NULL; the other columns take the field as it is.
Row(post) ==
  [post EXCEPT !.tags = IF post.tags = None \/ post.tags[1] = <<>>
                         THEN None ELSE <<JsonDumps(post.tags[1])>>]

\* The SocialMediaPost built from a fetched row (lines 248-260): timestamp
\* NULL becomes None, tags is `json.loads(row['tags']) if row['tags'] else []`.
RowToPost(row) ==
  [row EXCEPT !.tags = IF row.tags = None THEN <<<<>>>> ELSE <<JsonLoads(row.tags[1])>>]

\* Plain INSERT into a table that lacks the UNIQUE constraint.
InsertNoUnique(table, post) == Append(table, Row(post))

\* INSERT OR REPLACE against UNIQUE(platform, post_id): the conflicting row
\* is deleted and the new row is inserted with a fresh rowid (at the end).
InsertOrReplace(table, post) ==
  SelectSeq(table, LAMBDA r : ~SameKey(r, post)) \o <<Row(post)>>

\* The for-loop of _store_posts; failAt = 0 means no statement fails,
\* failAt = k means the k-th execute raises a non-IntegrityError sqlite3 error.
\* Every record here has a platform and a post_id, so no statement violates
\* a NOT NULL constraint, the one IntegrityError that INSERT OR REPLACE on
\* this table can still raise and that the loop would skip.
RECURSIVE StoreLoop(_, _, _, _)
StoreLoop(table, posts, i, failAt) ==
  IF i > Len(posts) THEN [ok |-> TRUE, table |-> table]
  ELSE IF i = failAt THEN [ok |-> FALSE, table |-> table]
  ELSE StoreLoop(InsertOrReplace(table, posts[i]), posts, i + 1, failAt)

\* _store_posts without the commit: the inserts never reach the table.
store_posts_uncommitted(table, posts, failAt) ==
  [ok |-> StoreLoop(table, posts, 1, failAt).ok, table |-> table]

\* _store_posts that rewrites the table with each batch instead of adding to it.
store_posts_rewrite(table, posts, failAt) ==
  LET r == StoreLoop(<<>>, posts, 1, failAt)
  IN IF r.ok THEN r ELSE [ok |-> FALSE, table |-> table]

\* _store_posts on a connection in autocommit mode: the rows inserted before
\* the failing statement stay in the table.
store_posts_partial(table, posts, failAt) == StoreLoop(table, posts, 1, failAt)

\* _store_posts: `with sqlite3.connect(...)` commits when the block ends
\* normally and rolls the whole transaction back when it raises.
store_posts(table, posts, failAt) ==
  LET r == StoreLoop(table, posts, 1, failAt)
  IN IF r.ok THEN r ELSE [ok |-> FALSE, table |-> table]

\* get_statistics()['total_posts']: SELECT COUNT(*) FROM posts.
total_posts(table) == Len(table)

\* ORDER BY timestamp DESC: NULL (0) sorts last; the order of rows with equal
\* timestamps is not determined by the query.
IsOrderedDesc(rows) ==
  \A i \in 1..Len(rows) - 1 : rows[i].timestamp >= rows[i + 1].timestamp

Reorderings(n) == {f \in [1..n -> 1..n] : \A i, j \in 1..n : f[i] = f[j] => i = j}

\* SQLite's LIKE folds the case of ASCII letters only.
Lower(ch) == CASE ch = "A" -> "a" [] ch = "B" -> "b" [] OTHER -> ch

\* One pattern character against one text character: `_` in a LIKE pattern
\* stands for any single character (the query gives no ESCAPE).
CharLike(p, ch) == p = "_" \/ Lower(p) = Lower(ch)

\* content LIKE '%keyword%' (lines 236-238).
Like(keyword, content) ==
  \E o \in 0..(Len(content) - Len(keyword)) :
    \A i \in 1..Len(keyword) : CharLike(keyword[i], content[o + i])

\* The WHERE clause built in lines 220-238.  A filter that is None (or an
\* empty keyword list) adds no condition; a comparison with a NULL timestamp
\* is not true.
Selected(row, platform, start_date, end_date, keywords) ==
  /\ platform # None => row.platform = platform[1]
  /\ start_date # None => (row.timestamp # 0 /\ row.timestamp >= start_date[1])
  /\ end_date # None => (row.timestamp # 0 /\ row.timestamp <= end_date[1])
  /\ (keywords # None /\ keywords[1] # <<>>) =>
       \E j \in 1..Len(keywords[1]) : Like(keywords[1][j], row.content)

\* ORDER BY rowid: the rows come back in the order they were written.
OrderedByRowid(rows) == {rows}

\* ORDER BY timestamp DESC (line 240): the possible orders of the rows.
OrderedByTimestamp(rows) ==
  {r \in {[i \in 1..Len(rows) |-> rows[f[i]]] : f \in Reorderings(Len(rows))} :
     IsOrderedDesc(r)}

\* The possible results of get_collected_data(platform, start_date,
\* end_date, keywords).
get_collected_data(table, platform, start_date, end_date, keywords) ==
  LET sel == SelectSeq(table,
                       LAMBDA r : Selected(r, platform, start_date, end_date, keywords))
  IN OrderedByTimestamp([i \in 1..Len(sel) |-> RowToPost(sel[i])])

Formats == {"json", "csv", "xlsx", "txt"}

\* json.dump(..., default=str): a datetime becomes its string form, None
\* stays null.
JsonValue(ts) == IF ts = 0 THEN <<"null">> ELSE <<"str", ts>>

\* export_data that leaves the tags out of every entry.
ExportFileNoTags(rows, format) ==
  IF format \in {"json", "csv", "xlsx"}
  THEN <<[i \in 1..Len(rows) |->
           [platform |-> rows[i].platform, post_id |-> rows[i].post_id,
            content |-> rows[i].content, timestamp |-> JsonValue(rows[i].timestamp),
            tags |-> JsonDumps(<<>>)]]>>
  ELSE <<>>

\* The file export_data writes: one entry per row for a recognised format
\* (asdict(post), the tags list as a nested array), nothing at all for an
\* unrecognised one.
ExportFile(rows, format) ==
  IF format \in {"json", "csv", "xlsx"}
  THEN <<[i \in 1..Len(rows) |->
           [platform |-> rows[i].platform, post_id |-> rows[i].post_id,
            content |-> rows[i].content, timestamp |-> JsonValue(rows[i].timestamp),
            tags |-> JsonDumps(rows[i].tags[1])]]>>
  ELSE <<>>

\* json.load of an exported JSON file: the list of entries, strings and
\* arrays as Python values, null as None.
ParseJson(file) ==
  [i \in 1..Len(file[1]) |->
     [file[1][i] EXCEPT !.tags = <<JsonLoads(@)>>,
                        !.timestamp = IF @ = <<"null">> THEN None ELSE @]]

\* ------------------------------------------------------ the configuration
\* The 'enabled' value of each section of default_config.
DefaultConfigAllEnabled == [n \in Names |-> TRUE]

DefaultConfig == [n \in Names |-> n = "forums"]

\* json.dump of the configuration dict, reduced to the 'enabled' value of
\* the sections it has, and json.load of such a text.
ConfigDump(data) == [n \in DOMAIN data |-> IF data[n] THEN "true" ELSE "false"]

ConfigLoad(text) == [n \in DOMAIN text |-> text[n] = "true"]

\* config_data.get(name, {}).get('enabled', False).
EnabledFlag(data, n) == IF n \in DOMAIN data THEN data[n] ELSE FALSE

\* A file whose text is not JSON (json.load raises).
Corrupt == <<[n \in {"not json"} |-> "{"]>>

\* A configuration file that enables exactly the platforms cs (it has a
\* section for those only).
ConfigFileOf(cs) == <<ConfigDump([n \in cs |-> TRUE])>>

\* SocialMediaConfig.__init__(config_path) on the file as it is: whether it
\* returned, the file afterwards, the platforms whose *_enabled is True and
\* whether the default file was written.
SocialMediaConfig(file) ==
  IF file = None
  THEN [ok |-> TRUE, file |-> <<ConfigDump(DefaultConfig)>>,
        enabled |-> {n \in Names : EnabledFlag(DefaultConfig, n)}, created |-> TRUE]
  ELSE IF file = Corrupt
  THEN [ok |-> FALSE, file |-> file, enabled |-> {}, created |-> FALSE]
  ELSE [ok |-> TRUE, file |-> file,
        enabled |-> {n \in Names : EnabledFlag(ConfigLoad(file[1]), n)}, created |-> FALSE]

\* _init_collectors: a collector for every platform whose *_enabled is True.
init_collectors(enabled) == enabled

\* ------------------------------------------------------- the coordinator
\* The default taken to be every known platform name, enabled or not.
CollectorKeysAll(cs) == InitOrder

\* list(self.collectors.keys()): the enabled names in insertion order.
CollectorKeys(cs) == SelectSeq(InitOrder, LAMBDA n : n \in cs)

\* Lines 130-135: one task per requested name that has a collector, in the
\* order of the request.  `collected` remembers what the collector returned,
\* `error` where the exception the task ended with was raised: in
\* collect_posts ("collector") or in _store_posts ("store").
MakeTasks(pl, cs) ==
  LET en == SelectSeq(pl, LAMBDA p : p \in cs)
  IN [j \in 1..Len(en) |->
        [name |-> en[j], status |-> "pending", collected |-> <<>>, error |-> "none"]]

EmptyResults == [n \in {} |-> <<>>]

\* Lines 142-146: an exception becomes the empty list, a value is kept.
ResultEntry(t) == IF t.status = "exc" THEN <<>> ELSE t.collected

\* Lines 140-146: the i-th requested platform (1-based here) reads
\* platform_results[i]; reading past the end of the list is an IndexError.
RECURSIVE Aggregate(_, _, _, _, _)
Aggregate(pl, pr, cs, i, acc) ==
  IF i > Len(pl) THEN acc
  ELSE IF pl[i] \notin cs THEN Aggregate(pl, pr, cs, i + 1, acc)
  ELSE IF i > Len(pr) THEN [acc EXCEPT !.raised = TRUE]
  ELSE Aggregate(pl, pr, cs, i + 1,
         [raised |-> FALSE,
          results |-> (pl[i] :> ResultEntry(pr[i])) @@ acc.results,
          logged |-> IF pr[i].status = "exc" THEN acc.logged \cup {pl[i]} ELSE acc.logged])

\* ------------------------------------------------- the Source Collectors
\* An item of a source listing, as far as a collector looks at it: where its
\* creation time lies relative to the window [now - time_range, now] of the
\* call ("old" before the cutoff, "in" inside, "future" after now, as the
\* collector's clock sees it), whether its text holds one of the keywords,
\* whether its fields can be read at all, and the count its payload reports
\* (score, like_count, total_count).
Times == {"old", "in", "future"}

SourceItem(t, m, w) == [time |-> t, match |-> m, ok |-> w, score |-> 0]

\* An item whose fields cannot be read: every access raises.
Malformed == SourceItem("in", TRUE, FALSE)

\* An item voted below zero: its payload reports a negative score.
Downvoted == [SourceItem("in", TRUE, TRUE) EXCEPT !.score = -1]

ItemKinds ==
  {SourceItem(t, m, TRUE) : t \in Times, m \in BOOLEAN} \cup {Malformed, Downvoted}

Listings == SeqsUpTo(ItemKinds, MaxOffer)

\* The items of a listing together with their position in it.
Indexed(listing) ==
  [i \in 1..Len(listing) |->
     [pos |-> i, time |-> listing[i].time, match |-> listing[i].match, ok |-> listing[i].ok,
      score |-> listing[i].score]]

\* The scraper _scrape_forum picks for a URL.
ForumKinds == {"reddit", "hackernews", "discourse", "generic"}

\* The platform tag the scraper of that kind writes.
KindTag(kind) == IF kind = "generic" THEN "forum" ELSE kind

\* The scrapers that stamp timestamp=datetime.utcnow() on what they build.
StampsNow(kind) == kind \in {"hackernews", "generic"}

\* The likes a scraper writes: the count of the payload as it is
\* (likes=post_data.get('score', 0), submission.score, like_count,
\* total_count); the generic scraper writes likes=0.
Likes(tag, it) == IF tag = "forum" THEN 0 ELSE it.score

\* The post_id a scraper writes: the identifier the source gives the item
\* (post_data.get('id'), story.get('id'), topic.get('id'), submission.id,
\* tweet.id), which is the item's place in the source here; the generic
\* scraper writes f"generic_{i}", i being the element's index on the page.
PostId(tag, it) == IF tag = "forum" THEN <<"generic", it.pos - 1>> ELSE <<"id", it.pos>>

\* `url` is the position of the configured forum URL the record was scraped
\* from (0 for the API collectors, which read one source).
Post(tag, ts, it) ==
  [platform |-> tag, post_id |-> PostId(tag, it), timestamp |-> ts, item |-> it,
   likes |-> Likes(tag, it), url |-> 0]

FromUrl(posts, i) == [k \in 1..Len(posts) |-> [posts[k] EXCEPT !.url = i]]

Min(a, b) == IF a <= b THEN a ELSE b

\* s[:n] for n >= 0.
Take(s, n) == SubSeq(s, 1, Min(n, Len(s)))

\* `if keywords and not matches: continue`.
PassesKeywords(it, nkw) == nkw = 0 \/ it.match

\* `if created_time < cutoff_time: continue`.
PassesCutoff(it) == it.time # "old"

\* The loop shared by _scrape_reddit_json, _scrape_discourse,
\* _collect_from_subreddit, _get_timeline_tweets and _get_user_posts: skip
\* what a filter rejects, append, and break once len(posts) >= limit (tested
\* after the append).  An item that raises is skipped where the loop body
\* has its own try/except ("skip"); elsewhere the exception leaves the loop
\* for the function's outer handler, which returns what was gathered so far
\* ("abort").
RECURSIVE ScanUntil(_, _, _, _, _, _, _)
ScanUntil(listing, i, timeFilter, nkw, limit, onError, posts) ==
  IF i > Len(listing) THEN posts
  ELSE IF ~listing[i].ok
    THEN IF onError = "abort" THEN posts
         ELSE ScanUntil(listing, i + 1, timeFilter, nkw, limit, onError, posts)
  ELSE IF timeFilter /\ ~PassesCutoff(listing[i])
    THEN ScanUntil(listing, i + 1, timeFilter, nkw, limit, onError, posts)
  ELSE IF ~PassesKeywords(listing[i], nkw)
    THEN ScanUntil(listing, i + 1, timeFilter, nkw, limit, onError, posts)
  ELSE IF Len(posts) + 1 >= limit THEN Append(posts, listing[i])
  ELSE ScanUntil(listing, i + 1, timeFilter, nkw, limit, onError,
                 Append(posts, listing[i]))

\* The loop of _scrape_hackernews and _scrape_generic_forum: the listing is
\* cut to its first `limit` rows; a row that raises is skipped by the
\* try/except of the loop body, then the keyword filter is applied.
ScanFirst(listing, nkw, limit) ==
  SelectSeq(Take(listing, limit), LAMBDA it : it.ok /\ PassesKeywords(it, nkw))

Tagged(tag, now, its) ==
  [i \in 1..Len(its) |-> Post(tag, IF now THEN "in" ELSE its[i].time, its[i])]

\* _scrape_forum(url, keywords, max_posts, time_range).
scrape_forum(kind, listing, nkw, limit) ==
  Tagged(KindTag(kind), StampsNow(kind),
         CASE kind = "reddit" -> ScanUntil(listing, 1, TRUE, nkw, limit, "abort", <<>>)
           [] kind = "discourse" -> ScanUntil(listing, 1, TRUE, nkw, limit, "skip", <<>>)
           [] OTHER -> ScanFirst(listing, nkw, limit))

\* The for-loop of ForumCollector.collect_posts: every URL is scraped with a
\* quota of max_posts // len(urls).
RECURSIVE ForumAllPosts(_, _, _, _, _)
ForumAllPosts(urls, i, listing, nkw, max_posts) ==
  IF i > Len(urls) THEN <<>>
  ELSE FromUrl(scrape_forum(urls[i], listing, nkw, max_posts \div Len(urls)), i)
         \o ForumAllPosts(urls, i + 1, listing, nkw, max_posts)

\* ForumCollector.collect_posts returning all_posts, not all_posts[:max_posts].
forum_collect_posts_unsliced(urls, listing, nkw, max_posts) ==
  ForumAllPosts(urls, 1, listing, nkw, max_posts)

\* ForumCollector.collect_posts.
forum_collect_posts(urls, listing, nkw, max_posts) ==
  Take(ForumAllPosts(urls, 1, listing, nkw, max_posts), max_posts)

\* RedditCollector.collect_posts with subreddits=None, as the coordinator
\* calls it: the one subreddit 'all', subreddit.new(limit=max_posts * 2).
reddit_collect_posts(listing, nkw, max_posts) ==
  Take(Tagged("reddit", FALSE,
              ScanUntil(Take(listing, (max_posts \div 1) * 2), 1, TRUE, nkw,
                        max_posts \div 1, "abort", <<>>)),
       max_posts)

\* _search_tweets: the search returns the tweets that match the query and
\* are not older than start_time; Paginator.flatten(limit) yields at most
\* `limit` of them; _tweet_to_post returns None for a tweet that raises.
search_tweets(listing, limit) ==
  SelectSeq(Take(SelectSeq(listing, LAMBDA it : PassesCutoff(it) /\ it.match), limit),
            LAMBDA it : it.ok)

\* _get_timeline_tweets: flatten(limit=max_posts), then the cutoff test on
\* tweet.created_at, read outside any per-tweet try/except.
get_timeline_tweets(listing, max_posts) ==
  ScanUntil(Take(listing, max_posts), 1, TRUE, 0, Len(listing) + 1, "abort", <<>>)

RECURSIVE Repeat(_, _)
Repeat(s, n) == IF n = 0 THEN <<>> ELSE s \o Repeat(s, n - 1)

\* TwitterCollector.collect_posts: one search per keyword with a quota of
\* max_posts // len(keywords), or the home timeline when there is none.
twitter_collect_posts(listing, nkw, max_posts) ==
  Take(Tagged("twitter", FALSE,
              IF nkw > 0
              THEN Repeat(search_tweets(listing, max_posts \div nkw), nkw)
              ELSE get_timeline_tweets(listing, max_posts)),
       max_posts)

\* FacebookCollector.collect_posts: the keywords argument is never read;
\* _get_user_posts applies the cutoff only.
facebook_collect_posts(listing, max_posts) ==
  Take(Tagged("facebook", FALSE,
              ScanUntil(listing, 1, TRUE, 0, max_posts, "abort", <<>>)),
       max_posts)

\* The outbound requests _scrape_forum makes for a URL read by the scraper
\* of that kind.  A reddit.com or news.ycombinator.com URL is fetched with
\* one GET.  Any other URL that does not itself contain 'discourse' is first
\* probed by _is_discourse_forum with session.head(url) and then fetched by
\* the scraper chosen; a URL containing 'discourse' is fetched without the
\* probe (the `or` short-circuits).
UrlRequests(kind) ==
  CASE kind \in {"reddit", "hackernews"} -> {<<"get">>}
    [] kind = "discourse" -> {<<"get">>, <<"head", "get">>}
    [] OTHER -> {<<"head", "get">>}

\* The requests and sleeps of the for-loop of ForumCollector.collect_posts,
\* in the order they happen: _scrape_forum catches what its scraper raises,
\* so every URL is followed by `await asyncio.sleep(request_delay)`.
RECURSIVE forum_requests(_, _)
forum_requests(urls, i) ==
  IF i > Len(urls) THEN {<<>>}
  ELSE {r \o <<"sleep">> \o rest : r \in UrlRequests(urls[i]),
                                    rest \in forum_requests(urls, i + 1)}

NoInput == [collector |-> "none", urls |-> <<>>, listing |-> <<>>, keywords |-> 0, max_posts |-> 1]

NotRun == [done |-> FALSE, posts |-> <<>>, requests |-> <<>>]

\* ------------------------------------------------------------------ state
VARIABLES
  collectors,   \* self.collectors: the names that have an enabled collector
  posts_table,  \* the rows of table posts, in rowid order
  platforms,    \* collect_data's local `platforms` (after the None default)
  tasks,        \* the _collect_from_platform tasks handed to asyncio.gather
  call_pc,      \* collect_data: "none", "gathering", "returned", "raised" or "cancelled"
  results,      \* the mapping the last call returned, if it was collect_data
  logged,       \* platform names an error was logged for during the last call
  output,       \* what the last call produced, if it was a read or an export
  sched_pc,     \* start_continuous_collection: "off", "idle", "collecting", "waiting", "cooldown", "stopped"
  sched_arg,    \* the platforms argument the scheduler passes to every cycle
  sched_log,    \* "none", "completed" (line 348) or "error" (line 357): the loop's last log line
  cancelled,    \* external cancellation has been delivered
  cin,          \* the arguments and source data of one collect_posts call
  cout,         \* what that collect_posts call returned
  cli,          \* one run of `social_media_agent.py collect`: its position and exit code
  config_file,  \* the configuration file: None while no file exists, else <<text>>
  interval_minutes  \* the interval_minutes argument of start_continuous_collection

vars == <<collectors, posts_table, platforms, tasks, call_pc, results, logged,
          output, sched_pc, sched_arg, sched_log, cancelled, cin, cout, cli, config_file,
          interval_minutes>>

coordVars == <<platforms, tasks, call_pc, results, logged>>
schedVars == <<sched_pc, sched_arg, sched_log, cancelled, interval_minutes>>

\* The configurations explored: the default one (config.py
\* _create_default_config: forums only), forums together with the reddit API
\* collector, and two API collectors without forums.
Configs == {{"forums"}, {"reddit", "forums"}, {"twitter", "facebook"}}

\* `await asyncio.sleep(300)  # 5 minutes` of the exception handler.
CooldownSeconds == 300

\* interval_minutes: int = 60 (and --interval, default=60).
DefaultInterval == 60

\* The intervals the loop is run with: the example's 2 minutes
\* (examples/basic_usage.py line 140), 5 minutes, the 30 minutes of the
\* CLI's usage text and the default.
Intervals == {2, 5, 30, DefaultInterval}

\* The argument of the asyncio.sleep the loop awaits in a phase: line 351
\* after a cycle that returned, line 359 after one that raised.
SleepSeconds(pc, minutes) == IF pc = "cooldown" THEN CooldownSeconds ELSE minutes * 60

\* The arguments of the last read: the four filters of get_collected_data
\* and the format of export_data.
NoArgs ==
  [platform |-> None, start_date |-> None, end_date |-> None, keywords |-> None,
   format |-> "none"]

NoOutput == [op |-> "none", total_posts |-> 0, rows |-> <<>>, file |-> <<>>, args |-> NoArgs]

\* SocialMediaCollector.__init__ over some configuration: any set of enabled
\* platforms, an empty posts table, nothing called yet.
NoCli == [pc |-> "off", exit |-> 0, platforms |-> None, attempted |-> FALSE, created |-> FALSE]

InitCommon ==
  /\ cli = NoCli
  /\ platforms = <<>>
  /\ tasks = <<>>
  /\ call_pc = "none"
  /\ results = EmptyResults
  /\ logged = {}
  /\ output = NoOutput
  /\ sched_log = "none"
  /\ cancelled = FALSE

Init ==
  /\ InitCommon
  /\ posts_table = <<>>
  /\ collectors \in Configs
  /\ config_file = ConfigFileOf(collectors)
  /\ sched_pc = "off"
  /\ sched_arg = None
  /\ interval_minutes = DefaultInterval
  /\ cin = NoInput
  /\ cout = NotRun

\* Lines 124-135 of collect_data, up to the await on asyncio.gather.
BeginCollect(arg) ==
  LET pl == IF arg = None THEN CollectorKeys(collectors) ELSE arg[1]
  IN /\ platforms' = pl
     /\ tasks' = MakeTasks(pl, collectors)
     /\ call_pc' = "gathering"
     /\ results' = EmptyResults
     /\ logged' = {}
     /\ output' = NoOutput

\* A caller awaits collect_data(platforms=arg) (one-shot use).
CollectData(arg) ==
  /\ sched_pc = "off"
  /\ call_pc # "gathering"
  /\ BeginCollect(arg)
  /\ UNCHANGED <<cli, config_file, cin, cout, collectors, posts_table, schedVars>>

\* asyncio.gather wraps the coroutines in tasks in argument order and the
\* event loop runs ready callbacks first-in first-out: a task takes its
\* first step only after every task created before it has taken its own.
Started(j) == \A k \in 1..(j - 1) : tasks[k].status # "pending"

\* ForumCollector.collect_posts scrapes a URL (blocking requests) and then
\* awaits asyncio.sleep(request_delay) (forum_collector.py line 74): the task
\* is suspended with nothing stored yet.
ForumScrape(j) ==
  /\ call_pc = "gathering"
  /\ j \in 1..Len(tasks)
  /\ tasks[j].status = "pending"
  /\ tasks[j].name = "forums"
  /\ Started(j)
  /\ tasks' = [tasks EXCEPT ![j] = [@ EXCEPT !.status = "awaiting"]]
  /\ UNCHANGED <<cli, config_file, cin, cout, collectors, posts_table, platforms, call_pc, results, logged,
                 output, schedVars>>

\* A task is ready to run its collector to the end without suspending: the
\* API collectors never await anything real and finish within their first
\* step; the forum collector is resumed by its sleep timer, which the loop
\* serves after the first steps already queued.
Runnable(j) ==
  \/ tasks[j].status = "pending" /\ tasks[j].name # "forums" /\ Started(j)
  \/ tasks[j].status = "awaiting" /\ Started(Len(tasks) + 1)

ReturnedBatches(t) == Batches(t.name)

\* Lines 160-170: collect_posts returns, _store_posts commits, the task
\* returns the posts.
TaskStored(j) ==
  /\ call_pc = "gathering"
  /\ j \in 1..Len(tasks)
  /\ Runnable(j)
  /\ \E b \in ReturnedBatches(tasks[j]) :
       LET r == store_posts(posts_table, b, 0)
       IN /\ posts_table' = r.table
          /\ tasks' = [tasks EXCEPT ![j] = [@ EXCEPT !.status = "ok", !.collected = b]]
  /\ UNCHANGED <<cli, config_file, cin, cout, collectors, platforms, call_pc, results, logged, output,
                 schedVars>>

\* Lines 167, 172-174: an execute inside _store_posts raises an error other
\* than IntegrityError; the transaction rolls back and the task re-raises.
TaskStoreFails(j) ==
  /\ call_pc = "gathering"
  /\ j \in 1..Len(tasks)
  /\ Runnable(j)
  /\ \E b \in ReturnedBatches(tasks[j]) : \E k \in 1..Len(b) :
       LET r == store_posts(posts_table, b, k)
       IN /\ posts_table' = r.table
          /\ tasks' = [tasks EXCEPT ![j] = [@ EXCEPT !.status = "exc", !.collected = <<>>,
                                                    !.error = "store"]]
  /\ logged' = logged \cup {tasks[j].name}
  /\ UNCHANGED <<cli, config_file, cin, cout, collectors, platforms, call_pc, results, output, schedVars>>

\* Lines 160, 172-174: collector.collect_posts itself raises.
TaskCollectorRaises(j) ==
  /\ call_pc = "gathering"
  /\ j \in 1..Len(tasks)
  /\ tasks[j].status = "pending"
  /\ Started(j)
  /\ tasks' = [tasks EXCEPT ![j] = [@ EXCEPT !.status = "exc", !.collected = <<>>,
                                            !.error = "collector"]]
  /\ logged' = logged \cup {tasks[j].name}
  /\ UNCHANGED <<cli, config_file, cin, cout, collectors, posts_table, platforms, call_pc, results,
                 output, schedVars>>

AllDone == \A j \in 1..Len(tasks) : tasks[j].status \in {"ok", "exc"}

\* asyncio.gather without return_exceptions=True: the first exception of a
\* task propagates out of the await and collect_data raises.
GatherPropagates ==
  IF \E j \in 1..Len(tasks) : tasks[j].status = "exc"
  THEN [raised |-> TRUE, results |-> EmptyResults, logged |-> {}]
  ELSE Aggregate(platforms, tasks, collectors, 1,
                 [raised |-> FALSE, results |-> EmptyResults, logged |-> {}])

\* The results matched to the requested names from the last task backwards.
GatherReversed ==
  Aggregate(platforms, [j \in 1..Len(tasks) |-> tasks[Len(tasks) + 1 - j]], collectors, 1,
            [raised |-> FALSE, results |-> EmptyResults, logged |-> {}])

\* The outcome of lines 138-148 once every task has finished.
GatherOutcome ==
  Aggregate(platforms, tasks, collectors, 1,
            [raised |-> FALSE, results |-> EmptyResults, logged |-> {}])

\* asyncio.gather(return_exceptions=True) resolves and lines 140-148 run:
\* collect_data returns the mapping or raises; its frame and tasks are gone.
EndCollect ==
  LET a == GatherOutcome
  IN /\ call_pc' = IF a.raised THEN "raised" ELSE "returned"
     /\ results' = IF a.raised THEN EmptyResults ELSE a.results
     /\ logged' = logged \cup a.logged
     /\ platforms' = <<>>
     /\ tasks' = <<>>

\* The one-shot caller's collect_data call finishes.
CollectDataReturn ==
  /\ sched_pc = "off"
  /\ call_pc = "gathering"
  /\ AllDone
  /\ EndCollect
  /\ UNCHANGED <<cli, config_file, cin, cout, collectors, posts_table, output, schedVars>>

\* get_statistics().
GetStatistics ==
  /\ sched_pc = "off"
  /\ call_pc # "gathering"
  /\ output' = [NoOutput EXCEPT !.op = "stats", !.total_posts = total_posts(posts_table)]
  /\ results' = EmptyResults
  /\ logged' = {}
  /\ call_pc' = "none"
  /\ UNCHANGED <<cli, config_file, cin, cout, collectors, posts_table, platforms, tasks, schedVars>>

\* get_collected_data(platform, start_date, end_date, keywords).
Query(pf, sd, ed, kw) ==
  /\ sched_pc = "off"
  /\ call_pc # "gathering"
  /\ \E rows \in get_collected_data(posts_table, pf, sd, ed, kw) :
       output' = [NoOutput EXCEPT !.op = "query", !.rows = rows,
                                  !.args = [NoArgs EXCEPT !.platform = pf, !.start_date = sd,
                                                          !.end_date = ed, !.keywords = kw]]
  /\ results' = EmptyResults
  /\ logged' = {}
  /\ call_pc' = "none"
  /\ UNCHANGED <<cli, config_file, cin, cout, collectors, posts_table, platforms, tasks, schedVars>>

\* get_collected_data() without filters.
GetCollectedData == Query(None, None, None, None)

\* export_data that empties the table it has exported.
ExportDataPurges(format) ==
  /\ sched_pc = "off"
  /\ call_pc # "gathering"
  /\ \E rows \in get_collected_data(posts_table, None, None, None, None) :
       output' = [NoOutput EXCEPT !.op = "export", !.file = ExportFile(rows, format),
                                  !.args = [NoArgs EXCEPT !.format = format]]
  /\ posts_table' = <<>>
  /\ results' = EmptyResults
  /\ logged' = {}
  /\ call_pc' = "none"
  /\ UNCHANGED <<cli, config_file, cin, cout, collectors, platforms, tasks, schedVars>>

\* export_data(output_path, format).
ExportData(format) ==
  /\ sched_pc = "off"
  /\ call_pc # "gathering"
  /\ \E rows \in get_collected_data(posts_table, None, None, None, None) :
       output' = [NoOutput EXCEPT !.op = "export", !.file = ExportFile(rows, format),
                                  !.args = [NoArgs EXCEPT !.format = format]]
  /\ results' = EmptyResults
  /\ logged' = {}
  /\ call_pc' = "none"
  /\ UNCHANGED <<cli, config_file, cin, cout, collectors, posts_table, platforms, tasks, schedVars>>

Next ==
  \/ \E arg \in PlatformArgs : CollectData(arg)
  \/ \E j \in 1..MaxPlatforms : ForumScrape(j)
  \/ \E j \in 1..MaxPlatforms : TaskStored(j)
  \/ \E j \in 1..MaxPlatforms : TaskStoreFails(j)
  \/ \E j \in 1..MaxPlatforms : TaskCollectorRaises(j)
  \/ CollectDataReturn
  \/ GetStatistics
  \/ GetCollectedData
  \/ \E f \in Formats : ExportData(f)

Spec == Init /\ [][Next]_vars

\* ------------------------------------------------- the continuous scheduler
\* The platforms arguments the loop is run with: the CLI default (None), the
\* example's ["forums"] (examples/basic_usage.py line 139) and a list naming
\* reddit and forums.
SchedArgs == {None, <<<<"forums">>>>, <<<<"reddit", "forums">>>>}

InitSched ==
  /\ InitCommon
  /\ posts_table = <<>>
  /\ collectors \in Configs
  /\ config_file = ConfigFileOf(collectors)
  /\ sched_pc = "idle"
  /\ sched_arg \in SchedArgs
  /\ interval_minutes \in Intervals
  /\ cin = NoInput
  /\ cout = NotRun

\* The loop without `except Exception`: a failed cycle ends it.
AfterCycleUncaught(raised) == IF raised THEN "stopped" ELSE "waiting"

\* The loop with a handler that does not sleep: it retries at once.
AfterCycleNoWait(raised) == IF raised THEN "collecting" ELSE "waiting"

\* Lines 346-359: where the loop body goes once collect_data has finished.
\* A normal return logs "completed" and awaits sleep(interval_minutes * 60);
\* an Exception is caught, logged, and followed by `await asyncio.sleep(300)`.
AfterCycle(raised) == IF raised THEN "cooldown" ELSE "waiting"

\* Line 345-347: the loop (re-)enters its body and awaits collect_data.
SchedStartCycle ==
  /\ sched_pc \in {"idle", "waiting", "cooldown"}
  /\ sched_pc' = "collecting"
  /\ BeginCollect(sched_arg)
  /\ UNCHANGED <<cli, config_file, cin, cout, collectors, posts_table, sched_arg, sched_log,
                 cancelled, interval_minutes>>

\* collect_data finishes inside the loop: lines 348-351 or lines 356-359.
SchedCycleEnd ==
  /\ sched_pc = "collecting"
  /\ call_pc = "gathering"
  /\ AllDone
  /\ EndCollect
  /\ sched_pc' = AfterCycle(GatherOutcome.raised)
  /\ sched_log' = IF GatherOutcome.raised THEN "error" ELSE "completed"
  /\ UNCHANGED <<cli, config_file, cin, cout, collectors, posts_table, output, sched_arg,
                 cancelled, interval_minutes>>

\* External cancellation (asyncio.wait_for timing out in
\* examples/basic_usage.py, Ctrl-C under asyncio.run): CancelledError is
\* thrown into the loop at the await it is suspended in.  It is a
\* BaseException, so no `except Exception` catches it; awaiting gather, the
\* cancellation is passed on to every task that has not finished.
CancelTask(t) ==
  IF t.status \in {"pending", "awaiting"} THEN [t EXCEPT !.status = "cancelled"] ELSE t

Cancel ==
  /\ sched_pc \in {"idle", "collecting", "waiting", "cooldown"}
  /\ sched_pc' = "stopped"
  /\ cancelled' = TRUE
  /\ tasks' = [j \in 1..Len(tasks) |-> CancelTask(tasks[j])]
  /\ call_pc' = IF call_pc = "gathering" THEN "cancelled" ELSE call_pc
  /\ UNCHANGED <<cli, config_file, cin, cout, collectors, posts_table, platforms, results, logged, output,
                 sched_arg, sched_log, interval_minutes>>

NextSched ==
  \/ SchedStartCycle
  \/ \E j \in 1..MaxPlatforms : ForumScrape(j)
  \/ \E j \in 1..MaxPlatforms : TaskStored(j)
  \/ \E j \in 1..MaxPlatforms : TaskStoreFails(j)
  \/ \E j \in 1..MaxPlatforms : TaskCollectorRaises(j)
  \/ SchedCycleEnd
  \/ Cancel

SpecSched == InitSched /\ [][NextSched]_vars

\* ------------------------------- `social_media_agent.py collect`, one run
\* --platforms takes one or more of the four names (nargs='+', choices).
CliArgs == {None} \cup {<<l>> : l \in SeqsUpTo(Names, MaxPlatforms) \ {<<>>}}

\* The configuration files a run may find: none, the ones of Configs, or a
\* file that is not JSON.
ConfigFiles == {None, Corrupt} \cup {ConfigFileOf(cs) : cs \in Configs}

\* The command has parsed its arguments; nothing is constructed yet.
InitCli ==
  /\ posts_table = <<>>
  /\ platforms = <<>>
  /\ tasks = <<>>
  /\ call_pc = "none"
  /\ results = EmptyResults
  /\ logged = {}
  /\ output = NoOutput
  /\ sched_log = "none"
  /\ cancelled = FALSE
  /\ sched_pc = "off"
  /\ sched_arg = None
  /\ interval_minutes = DefaultInterval
  /\ cin = NoInput
  /\ cout = NotRun
  /\ collectors = {}
  /\ config_file \in ConfigFiles
  /\ \E a \in CliArgs : cli = [NoCli EXCEPT !.pc = "start", !.platforms = a]

\* The exit code of a run whose run_collection ended as given: main's
\* `except Exception` prints the error and calls sys.exit(1).
ExitCode(raised) == IF raised THEN 1 ELSE 0

\* setup_directories() raises (main, outside any try): the interpreter
\* ends with status 1.
CliSetupFails ==
  /\ cli.pc = "start"
  /\ cli' = [cli EXCEPT !.pc = "exited", !.exit = 1]
  /\ UNCHANGED <<config_file, cin, cout, collectors, posts_table, coordVars, output,
                 schedVars>>

\* run_collection line 70: SocialMediaCollector() loads or creates the
\* configuration and builds the collectors; a configuration that cannot be
\* read raises out of run_collection.
CliConstruct ==
  /\ cli.pc = "start"
  /\ LET c == SocialMediaConfig(config_file)
     IN /\ config_file' = c.file
        /\ collectors' = init_collectors(c.enabled)
        /\ cli' = IF c.ok THEN [cli EXCEPT !.pc = "constructed", !.created = c.created]
                          ELSE [cli EXCEPT !.pc = "exited", !.exit = ExitCode(TRUE)]
  /\ UNCHANGED <<cin, cout, posts_table, coordVars, output, schedVars>>

\* run_collection lines 83-88: the single collect_data call begins.
CliCollect ==
  /\ cli.pc = "constructed"
  /\ BeginCollect(cli.platforms)
  /\ cli' = [cli EXCEPT !.pc = "collecting", !.attempted = TRUE]
  /\ UNCHANGED <<config_file, cin, cout, collectors, posts_table, schedVars>>

RECURSIVE SumLen(_, _)
SumLen(f, S) ==
  IF S = {} THEN 0 ELSE LET n == CHOOSE n \in S : TRUE IN Len(f[n]) + SumLen(f, S \ {n})

\* run_collection lines 83-97: collect_data returns or raises; with nothing
\* collected there is nothing to export.
CliCollectEnd ==
  /\ cli.pc = "collecting"
  /\ call_pc = "gathering"
  /\ AllDone
  /\ EndCollect
  /\ LET a == GatherOutcome
     IN cli' = IF a.raised THEN [cli EXCEPT !.pc = "exited", !.exit = ExitCode(TRUE)]
               ELSE IF SumLen(a.results, DOMAIN a.results) > 0
                 THEN [cli EXCEPT !.pc = "exporting"]
               ELSE [cli EXCEPT !.pc = "exited", !.exit = ExitCode(FALSE)]
  /\ UNCHANGED <<config_file, cin, cout, collectors, posts_table, output, schedVars>>

\* run_collection lines 98-107: the JSON and the CSV export are written.
CliExport ==
  /\ cli.pc = "exporting"
  /\ \E rows \in get_collected_data(posts_table, None, None, None, None) :
       output' = [NoOutput EXCEPT !.op = "export", !.file = ExportFile(rows, "csv"),
                                  !.args = [NoArgs EXCEPT !.format = "csv"]]
  /\ cli' = [cli EXCEPT !.pc = "exited", !.exit = ExitCode(FALSE)]
  /\ UNCHANGED <<config_file, cin, cout, collectors, posts_table, coordVars, schedVars>>

\* An export raises (the file cannot be written, pandas cannot be imported
\* for the CSV): run_collection re-raises.
CliExportFails ==
  /\ cli.pc = "exporting"
  /\ cli' = [cli EXCEPT !.pc = "exited", !.exit = ExitCode(TRUE)]
  /\ UNCHANGED <<config_file, cin, cout, collectors, posts_table, coordVars, output,
                 schedVars>>

NextCli ==
  \/ CliSetupFails
  \/ CliConstruct
  \/ CliCollect
  \/ \E j \in 1..MaxPlatforms : ForumScrape(j)
  \/ \E j \in 1..MaxPlatforms : TaskStored(j)
  \/ \E j \in 1..MaxPlatforms : TaskStoreFails(j)
  \/ \E j \in 1..MaxPlatforms : TaskCollectorRaises(j)
  \/ CliCollectEnd
  \/ CliExport
  \/ CliExportFails

SpecCli == InitCli /\ [][NextCli]_vars

\* ------------------------------------------------ the Store, read by read
\* The records written before the reads: one identity per platform, a
\* timestamp that is None (0), earlier (1) or later (2), a content of two
\* characters, and the tags the collector of that platform sets.
StoreRecords ==
  {SocialMediaPost(pf, "p1", c, ts,
                   CASE pf = "reddit" -> <<<<"all">>>>
                     [] pf = "facebook" -> <<<<>>>>
                     [] pf = "forum" -> <<<<"site">>>>) :
     pf \in {"reddit", "facebook", "forum"}, c \in {<<"A", "b">>, <<"b", "b">>},
     ts \in {0, 1, 2}}

\* Keyword lists handed to get_collected_data: none, the empty list, and
\* lists over the keywords "a" and "_b".
KeywordArgs ==
  {None, <<<<>>>>, <<<<<<"a">>>>>>, <<<<<<"_", "b">>>>>>, <<<<<<"a">>, <<"_", "b">>>>>>}

PlatformFilters == {None, <<"reddit">>, <<"forum">>}

DateFilters == {None, <<1>>, <<2>>}

\* A coordinator over the default configuration whose table holds what a
\* sequence of records written through _store_posts leaves in it.
InitStore ==
  /\ InitCommon
  /\ \E batch \in SeqsUpTo(StoreRecords, MaxRows) :
       posts_table = store_posts(<<>>, batch, 0).table
  /\ collectors = {"forums"}
  /\ config_file = ConfigFileOf(collectors)
  /\ sched_pc = "off"
  /\ sched_arg = None
  /\ interval_minutes = DefaultInterval
  /\ cin = NoInput
  /\ cout = NotRun

\* One read of every table: a read leaves the table as it is, so a second
\* read would meet the same table again.
NextStore ==
  \/ /\ output.op = "none"
     /\ \E pf \in PlatformFilters, sd \in DateFilters, ed \in DateFilters,
           kw \in KeywordArgs : Query(pf, sd, ed, kw)
  \/ /\ output.op = "none"
     /\ \E f \in Formats : ExportData(f)

SpecStore == InitStore /\ [][NextStore]_vars

\* --------------------------------------------- collect_posts, call by call
\* The calls explored: every collector, every positive max_posts, keyword
\* count and listing within the bounds, and for the forum collector every
\* list of configured URLs, each read by one of the four scrapers.
InitCollect ==
  /\ InitCommon
  /\ posts_table = <<>>
  /\ \E c \in Names, l \in Listings, k \in 0..MaxKeywords, m \in 1..MaxPosts :
       \E u \in IF c = "forums" THEN SeqsUpTo(ForumKinds, MaxUrls) ELSE {<<>>} :
         cin = [collector |-> c, urls |-> u, listing |-> l, keywords |-> k, max_posts |-> m]
  /\ collectors = {cin.collector}
  /\ config_file = ConfigFileOf(collectors)
  /\ sched_pc = "off"
  /\ sched_arg = None
  /\ interval_minutes = DefaultInterval
  /\ cout = NotRun

CollectFrame ==
  UNCHANGED <<cli, config_file, cin, collectors, posts_table, coordVars, output, schedVars>>

ForumCollectPosts ==
  /\ cin.collector = "forums" /\ ~cout.done
  /\ \E r \in forum_requests(cin.urls, 1) :
       cout' = [done |-> TRUE,
                posts |-> forum_collect_posts(cin.urls, Indexed(cin.listing), cin.keywords,
                                              cin.max_posts),
                requests |-> r]
  /\ CollectFrame

RedditCollectPosts ==
  /\ cin.collector = "reddit" /\ ~cout.done
  /\ cout' = [done |-> TRUE,
              posts |-> reddit_collect_posts(Indexed(cin.listing), cin.keywords, cin.max_posts),
              requests |-> <<>>]
  /\ CollectFrame

TwitterCollectPosts ==
  /\ cin.collector = "twitter" /\ ~cout.done
  /\ cout' = [done |-> TRUE,
              posts |-> twitter_collect_posts(Indexed(cin.listing), cin.keywords, cin.max_posts),
              requests |-> <<>>]
  /\ CollectFrame

FacebookCollectPosts ==
  /\ cin.collector = "facebook" /\ ~cout.done
  /\ cout' = [done |-> TRUE,
              posts |-> facebook_collect_posts(Indexed(cin.listing), cin.max_posts),
              requests |-> <<>>]
  /\ CollectFrame

NextCollect ==
  \/ ForumCollectPosts
  \/ RedditCollectPosts
  \/ TwitterCollectPosts
  \/ FacebookCollectPosts

SpecCollect == InitCollect /\ [][NextCollect]_vars

\* ------------------------------------------------------------ properties
HasDuplicateKey(posts) ==
  \E i, k \in 1..Len(posts) : i < k /\ SameKey(posts[i], posts[k])

RowsWithKey(table, p) == {i \in 1..Len(table) : SameKey(table[i], p)}

\* C1: store writes are first-write-wins: a row that is already in the table
\* keeps its field values when its (platform, post_id) is written again.
C1_FirstWriteWins ==
  [][\A i \in 1..Len(posts_table) : \A k \in 1..Len(posts_table') :
       SameKey(posts_table[i], posts_table'[k]) => posts_table'[k] = posts_table[i]]_vars

\* C2: after any sequence of store writes the table holds at most one row per
\* (platform, post_id), and a write changes total_posts by exactly the number
\* of identities that were not stored before (so by nothing when the written
\* identities are all stored already).
C2_OneRowPerIdentity ==
  [][/\ \A i, k \in 1..Len(posts_table') :
          SameKey(posts_table'[i], posts_table'[k]) => i = k
     /\ total_posts(posts_table') =
          total_posts(posts_table) + Cardinality(Keys(posts_table') \ Keys(posts_table))]_vars

\* A task has stored a batch that names one identity twice, and the table
\* holds exactly one row for it.
C2_Witness ==
  \E j \in 1..Len(tasks) :
    /\ tasks[j].status = "ok"
    /\ HasDuplicateKey(tasks[j].collected)
    /\ \A i \in 1..Len(tasks[j].collected) :
         Cardinality(RowsWithKey(posts_table, tasks[j].collected[i])) = 1

\* C3: a collect_data call over enabled collectors returns normally whatever
\* its collectors did; when it returns every task it gathered has run to its
\* end (a raising collector stopped no other), each healthy collector's
\* entry is what that collector returned, and a failing collector's entry is
\* the empty sequence with an error logged for it.  Where a name was
\* requested more than once, its entry is that of its last task.
C3_FailureIsolated ==
  [][(call_pc = "gathering" /\ call_pc' \in {"returned", "raised"}
        /\ \A i \in 1..Len(platforms) : platforms[i] \in collectors) =>
       /\ call_pc' = "returned"
       /\ \A j \in 1..Len(tasks) :
            /\ tasks[j].status \in {"ok", "exc"}
            /\ (\A k \in (j + 1)..Len(tasks) : tasks[k].name # tasks[j].name) =>
                 /\ tasks[j].name \in DOMAIN results'
                 /\ tasks[j].status = "ok" => results'[tasks[j].name] = tasks[j].collected
                 /\ tasks[j].status = "exc" =>
                      (results'[tasks[j].name] = <<>> /\ tasks[j].name \in logged')]_vars

\* A call has returned in which one collector failed and another returned records.
C3_Witness ==
  /\ call_pc = "returned"
  /\ \E p, q \in DOMAIN results :
       p \in logged /\ results[p] = <<>> /\ q \notin logged /\ results[q] # <<>>

\* C4: a requested name that has no enabled collector never makes
\* collect_data raise.
C4_UnknownNameIsNoOp == call_pc # "raised"

C6_StoreMonotone ==
  [][/\ Keys(posts_table) \subseteq Keys(posts_table')
     /\ total_posts(posts_table') >= total_posts(posts_table)]_vars

\* An export has run over a table that holds several rows.
C6_Witness == output.op = "export" /\ Len(posts_table) >= 2

\* C7: a cycle that raises is caught and logged and leads to the cooldown,
\* the cooldown leads only to a further cycle, and the loop stops only when
\* it is cancelled from outside.
C7_LoopSurvivesFailure ==
  [][/\ (sched_pc = "collecting" /\ call_pc' = "raised") =>
          (sched_pc' = "cooldown" /\ sched_log' = "error")
     /\ (sched_pc = "cooldown" /\ sched_pc' # "cooldown") =>
          (sched_pc' = "collecting" \/ cancelled')
     /\ sched_pc' = "stopped" => cancelled']_vars

\* A further cycle is running after a cycle that raised.
C7_Witness == sched_pc = "collecting" /\ sched_log = "error" /\ ~cancelled

\* C8: when the scheduler has stopped, no task of the cycle that was in
\* flight was cut short: each ran to its end.
C8_InFlightCycleCompletes ==
  sched_pc = "stopped" =>
    \A j \in 1..Len(tasks) : tasks[j].status \in {"ok", "exc"}

PhaseSteps ==
  {<<"idle", "collecting">>, <<"collecting", "waiting">>, <<"collecting", "cooldown">>,
   <<"waiting", "collecting">>, <<"cooldown", "collecting">>}

\* C9: the phases go Idle -> Collecting -> Waiting|Cooldown -> Collecting ...:
\* a cycle is in flight exactly in Collecting, Waiting follows a cycle that
\* returned and Cooldown one that raised, a cycle starts only out of Idle or
\* a wait, and Stopped is entered only by cancellation.
C9_PhaseOrder ==
  [][/\ \/ sched_pc' = sched_pc
        \/ <<sched_pc, sched_pc'>> \in PhaseSteps
        \/ sched_pc' = "stopped" /\ cancelled' /\ ~cancelled
     /\ sched_pc' = "collecting" <=> call_pc' = "gathering"
     /\ sched_pc' = "waiting" => call_pc' = "returned"
     /\ sched_pc' = "cooldown" => call_pc' = "raised"
     /\ (call_pc' = "gathering" /\ call_pc # "gathering") =>
          sched_pc \in {"idle", "waiting", "cooldown"}]_vars

\* A second cycle is running after the wait that followed a completed cycle.
C9_Witness == sched_pc = "collecting" /\ sched_log = "completed" /\ ~cancelled

\* C10: whatever the collector, max_posts, keywords, configured URLs and
\* source listing, collect_posts returns at most max_posts records.
C10_AtMostMaxPosts == cout.done => Len(cout.posts) <= cin.max_posts

\* The forum collector was given URLs whose scrapers together produce more
\* than max_posts records, and returned exactly max_posts.
C10_Witness ==
  /\ cout.done
  /\ cin.collector = "forums"
  /\ Len(ForumAllPosts(cin.urls, 1, Indexed(cin.listing), cin.keywords, cin.max_posts))
       > cin.max_posts
  /\ Len(cout.posts) = cin.max_posts

\* C11: every record a collector returns has a timestamp inside the window
\* [now - time_range, now] of the call: none older than the cutoff, none
\* later than the call time.
C11_TimestampsInWindow ==
  cout.done => \A i \in 1..Len(cout.posts) : cout.posts[i].timestamp = "in"

\* C12: when keywords were given, every record a collector returns comes
\* from an item whose text holds at least one of them.
C12_KeywordsMatch ==
  (cout.done /\ cin.keywords > 0) =>
    \A i \in 1..Len(cout.posts) : cout.posts[i].item.match

\* The number of listings one collect_posts call reads: one per configured
\* URL, one per keyword searched, otherwise one.
SourcesRead ==
  CASE cin.collector = "forums" -> Len(cin.urls)
    [] cin.collector = "twitter" /\ cin.keywords > 0 -> cin.keywords
    [] OTHER -> 1

\* C21: every record a collector constructs has likes >= 0, whatever count
\* the payload of its source item reports.
C21_CountsNonNegative ==
  cout.done => \A i \in 1..Len(cout.posts) : cout.posts[i].likes >= 0

\* C13: a malformed item costs only itself: when max_posts leaves room for
\* everything the sources offer, every well-formed item that passes the
\* time and keyword filters is returned, whatever precedes it in its
\* listing.
C13_OnlyMalformedSkipped ==
  (cout.done /\ SourcesRead >= 1 /\ SourcesRead * Len(cin.listing) <= cin.max_posts) =>
    \A i \in 1..Len(cin.listing) :
      (cin.listing[i].ok /\ cin.listing[i].time = "in" /\ cin.listing[i].match) =>
        \E k \in 1..Len(cout.posts) : cout.posts[k].item.pos = i

\* The keyword occurs in the content as a substring, letter case ignored.
Contains(keyword, content) ==
  \E o \in 0..(Len(content) - Len(keyword)) :
    \A i \in 1..Len(keyword) : Lower(keyword[i]) = Lower(content[o + i])

\* The row satisfies every filter that was supplied.
Wanted(row, a) ==
  /\ a.platform # None => row.platform = a.platform[1]
  /\ a.start_date # None => (row.timestamp # 0 /\ row.timestamp >= a.start_date[1])
  /\ a.end_date # None => (row.timestamp # 0 /\ row.timestamp <= a.end_date[1])
  /\ (a.keywords # None /\ a.keywords[1] # <<>>) =>
       \E j \in 1..Len(a.keywords[1]) : Contains(a.keywords[1][j], row.content)

\* C14: get_collected_data returns exactly the stored rows that satisfy all
\* supplied filters: the platform, the time bounds (a row without timestamp
\* fails any time bound) and a case-insensitive substring match of at least
\* one keyword in the content.
C14_QueryFilters ==
  output.op = "query" =>
    /\ Len(output.rows) = Len(SelectSeq(posts_table, LAMBDA r : Wanted(r, output.args)))
    /\ \A i \in 1..Len(posts_table) :
         Wanted(posts_table[i], output.args) <=>
           \E k \in 1..Len(output.rows) : SameKey(output.rows[k], posts_table[i])

\* C15: the rows get_collected_data returns are in descending order of
\* timestamp and every row without a timestamp comes after every row that
\* has one, in whatever order the rows were written.
C15_QueryOrder ==
  output.op = "query" =>
    \A i, k \in 1..Len(output.rows) :
      i < k => /\ output.rows[i].timestamp = 0 => output.rows[k].timestamp = 0
               /\ output.rows[k].timestamp # 0 =>
                    output.rows[i].timestamp >= output.rows[k].timestamp

\* A query has returned a row with a timestamp ahead of a row without one,
\* and the row without timestamp was written first.
C15_Witness ==
  /\ output.op = "query"
  /\ Len(output.rows) = 2 /\ Len(posts_table) = 2
  /\ output.rows[1].timestamp # 0 /\ output.rows[2].timestamp = 0
  /\ posts_table[1].timestamp = 0

\* C16: a step that is an export leaves the table as it was, rows and field
\* values alike, whatever the format argument.
C16_ExportLeavesStore ==
  [][output'.op = "export" => posts_table' = posts_table]_vars

\* An export with an unrecognised format has run over a table that holds rows.
C16_Witness ==
  output.op = "export" /\ output.args.format = "txt" /\ posts_table # <<>>

\* C17: the entries parsed back from a JSON export are one per stored row,
\* carry the identities of the table, and agree with their row on content,
\* on an absent timestamp, and on tags as a nested list (the empty list for a
\* row that stores no tags).
C17_JsonRoundTrip ==
  (output.op = "export" /\ output.args.format = "json") =>
    LET parsed == ParseJson(output.file)
    IN /\ Len(parsed) = Len(posts_table)
       /\ {Key(parsed[i]) : i \in 1..Len(parsed)} = Keys(posts_table)
       /\ \A i \in 1..Len(parsed) : \A k \in 1..Len(posts_table) :
            SameKey(parsed[i], posts_table[k]) =>
              /\ parsed[i].content = posts_table[k].content
              /\ posts_table[k].timestamp = 0 <=> parsed[i].timestamp = None
              /\ posts_table[k].tags = None => parsed[i].tags = <<<<>>>>
              /\ posts_table[k].tags # None =>
                   JsonDumps(parsed[i].tags[1]) = posts_table[k].tags[1]

\* A JSON export has run over a table holding a row with tags and a row that
\* stores none.
C17_Witness ==
  /\ output.op = "export" /\ output.args.format = "json"
  /\ \E i, k \in 1..Len(posts_table) :
       posts_table[i].tags = None /\ posts_table[k].tags # None

\* C18: a run of the collect command that has attempted the collection ends
\* with exit code 0, whatever its platforms did; a non-zero exit code is
\* that of a failed directory or configuration setup.
C18_ExitCode ==
  (cli.pc = "exited" /\ cli.attempted) => cli.exit = 0

\* C19: a configuration constructed where no file exists writes a default
\* file, the coordinator built from it holds exactly the forums collector,
\* and loading the file just written enables the same platforms.
C19_DefaultConfig ==
  [][(config_file = None /\ cli'.pc = "constructed") =>
       /\ config_file' # None
       /\ collectors' = {"forums"}
       /\ SocialMediaConfig(config_file').ok
       /\ ~SocialMediaConfig(config_file').created
       /\ SocialMediaConfig(config_file').file = config_file'
       /\ init_collectors(SocialMediaConfig(config_file').enabled) = {"forums"}]_vars

\* A run that found no configuration file has built its coordinator.
C19_Witness ==
  cli.pc = "constructed" /\ cli.created /\ config_file # None /\ collectors = {"forums"}

\* C20: a collect_data call whose platforms defaulted to the enabled
\* collectors returns normally, has run exactly one task per enabled
\* collector, each to its end, and returns a mapping whose keys are exactly
\* the enabled collectors.
C20_DefaultPlatforms ==
  [][(call_pc = "gathering" /\ call_pc' \in {"returned", "raised"}
        /\ platforms = CollectorKeys(collectors)) =>
       /\ call_pc' = "returned"
       /\ DOMAIN results' = collectors
       /\ Len(tasks) = Cardinality(collectors)
       /\ \A n \in collectors :
            \E j \in 1..Len(tasks) :
              /\ tasks[j].name = n
              /\ tasks[j].status \in {"ok", "exc"}
              /\ \A k \in 1..Len(tasks) : tasks[k].name = n => k = j]_vars

\* A call over two enabled collectors has returned an entry with records
\* for each of them and for nothing else.
C20_Witness ==
  /\ call_pc = "returned"
  /\ Cardinality(collectors) = 2
  /\ DOMAIN results = collectors
  /\ \A n \in collectors : results[n] # <<>>

\* Tasks j and k of one call both returned a record of the same identity.
ShareIdentity(j, k) ==
  \E a \in 1..Len(tasks[j].collected), b \in 1..Len(tasks[k].collected) :
    SameKey(tasks[j].collected[a], tasks[k].collected[b])

\* C22: when two concurrent tasks of one collect_data call have both stored
\* a record of the same identity, then at the end of the call, however their
\* steps were interleaved, the table holds exactly one row for that identity
\* and exactly one row for every other record either of them returned.
C22_ConcurrentWriters ==
  [][(call_pc = "gathering" /\ call_pc' \in {"returned", "raised"}) =>
       \A j, k \in 1..Len(tasks) :
         (j < k /\ tasks[j].status = "ok" /\ tasks[k].status = "ok" /\ ShareIdentity(j, k)) =>
           \A t \in {j, k} : \A i \in 1..Len(tasks[t].collected) :
             Cardinality(RowsWithKey(posts_table, tasks[t].collected[i])) = 1]_vars

\* The reddit API collector and the forum collector have both stored the
\* reddit post r1 within one call, and the forum collector a Hacker News
\* story besides.
C22_Witness ==
  /\ call_pc = "gathering" /\ AllDone
  /\ \E j, k \in 1..Len(tasks) :
       /\ j < k /\ tasks[j].name # tasks[k].name
       /\ tasks[j].status = "ok" /\ tasks[k].status = "ok" /\ ShareIdentity(j, k)
       /\ \E t \in {j, k} : \E i \in 1..Len(tasks[t].collected) :
            \A u \in {j, k} \ {t} : \A b \in 1..Len(tasks[u].collected) :
              ~SameKey(tasks[t].collected[i], tasks[u].collected[b])

\* C23: a collect_data call during which _store_posts failed with an error
\* other than a duplicate key ends by raising to its caller, whereas a call
\* whose only irregularity is a batch naming an identity twice returns
\* normally with no error logged.
C23_StoreFailureSurfaced ==
  [][(call_pc = "gathering" /\ call_pc' \in {"returned", "raised"}
        /\ \A i \in 1..Len(platforms) : platforms[i] \in collectors) =>
       /\ (\E j \in 1..Len(tasks) : tasks[j].error = "store") => call_pc' = "raised"
       /\ (/\ \A j \in 1..Len(tasks) : tasks[j].status = "ok"
           /\ \E j \in 1..Len(tasks) : HasDuplicateKey(tasks[j].collected)) =>
            (call_pc' = "returned" /\ logged' = {})]_vars

\* C24: whenever the loop is in the cooldown after a failed cycle, the time
\* it sleeps there is longer than the time it sleeps between cycles with the
\* interval_minutes it was started with.
C24_CooldownLonger ==
  sched_pc = "cooldown" =>
    SleepSeconds("cooldown", interval_minutes) > SleepSeconds("waiting", interval_minutes)

\* C25: in the requests and sleeps of one ForumCollector.collect_posts call,
\* every outbound request but the last is followed by the request_delay
\* sleep before the next request is made.
C25_DelayBetweenRequests ==
  (cout.done /\ cin.collector = "forums") =>
    \A i \in 1..(Len(cout.requests) - 1) :
      cout.requests[i] # "sleep" => cout.requests[i + 1] = "sleep"

\* What the collector of a finished task produced: the records it returned,
\* or nothing if it raised.
Outcome(t) == IF t.status = "ok" THEN t.collected ELSE <<>>

\* C26: when collect_data returns normally, the keys of the mapping are the
\* requested names that have a collector, and the entry of each name is the
\* outcome of a task that ran that name's own collector, whatever the order
\* of the request, its repetitions and its names without collector.
C26_OwnOutcome ==
  [][(call_pc = "gathering" /\ call_pc' = "returned") =>
       /\ DOMAIN results' = {platforms[i] : i \in 1..Len(platforms)} \cap collectors
       /\ \A n \in DOMAIN results' :
            \E j \in 1..Len(tasks) : tasks[j].name = n /\ results'[n] = Outcome(tasks[j])]_vars

\* A call that requested a name without collector after the name of an
\* enabled collector is about to return that collector's records.
C26_Witness ==
  /\ call_pc = "gathering" /\ AllDone /\ ~GatherOutcome.raised
  /\ \E i \in 1..Len(platforms) : platforms[i] \notin collectors
  /\ \E j \in 1..Len(tasks) : tasks[j].status = "ok" /\ tasks[j].collected # <<>>

\* C27: every record in the mapping collect_data returned carries as its
\* platform the name it is filed under, which is the only value a
\* get_collected_data(platform=name) query matches.
C27_PlatformIsKey ==
  call_pc = "returned" =>
    \A n \in DOMAIN results : \A k \in 1..Len(results[n]) :
      /\ results[n][k].platform = n
      /\ Selected(Row(results[n][k]), <<n>>, None, None, None)

\* Identifiers that are local to one site: Discourse topic numbers and
\* the generic scraper's page indices.  Reddit, Hacker News and Twitter
\* identifiers name the same item wherever it is listed.
SiteLocal(tag) == tag \in {"discourse", "forum"}

\* Two records were built from the same source item.
SameSourceItem(p, q) ==
  /\ p.platform = q.platform
  /\ p.item.pos = q.item.pos
  /\ SiteLocal(p.platform) => p.url = q.url

\* C28: records built from different source items never have the same
\* (platform, post_id).
C28_DistinctItemsDistinctKeys ==
  cout.done =>
    \A i, k \in 1..Len(cout.posts) :
      ~SameSourceItem(cout.posts[i], cout.posts[k]) => ~SameKey(cout.posts[i], cout.posts[k])

\* The request names a platform without collector ahead of one that has a
\* collector: collect_data raises IndexError whatever its collectors do.
RequestRaises ==
  \E i, k \in 1..Len(platforms) :
    i < k /\ platforms[i] \notin collectors /\ platforms[k] \in collectors

C30_BatchAllOrNothing ==
  [][/\ (/\ Len(tasks') = Len(tasks)
         /\ \E j \in 1..Len(tasks) : tasks[j].error = "none" /\ tasks'[j].error = "store") =>
          posts_table' = posts_table
     /\ (call_pc = "gathering" /\ call_pc' = "returned") =>
          \A j \in 1..Len(tasks) :
            (\A k \in (j + 1)..Len(tasks) : tasks[k].name # tasks[j].name) =>
              /\ tasks[j].error = "store" => results'[tasks[j].name] = <<>>
              /\ tasks[j].status = "ok" =>
                   /\ results'[tasks[j].name] = tasks[j].collected
                   /\ \A i \in 1..Len(tasks[j].collected) :
                        Key(tasks[j].collected[i]) \in Keys(posts_table')]_vars

\* Within one call the write of one task has failed and another task has
\* stored its records.
C30_Witness ==
  /\ call_pc = "gathering" /\ AllDone
  /\ \E j, k \in 1..Len(tasks) :
       /\ tasks[j].error = "store"
       /\ tasks[k].status = "ok" /\ tasks[k].collected # <<>>
       /\ \A i \in 1..Len(tasks[k].collected) : Key(tasks[k].collected[i]) \in Keys(posts_table)

====
